---------------------------- MODULE Spec2Model ----------------------------
(***************************************************************************)
(* Static-replication pricing of CMS decompounded options                  *)
(* (decompounded_option/decompounded_options_eko.ipynb).                   *)
(*                                                                         *)
(* Numbers.  The notebook computes in binary floating point.  Here a real  *)
(* number is an exact rational with a decimal exponent, n/d * 10^e, so     *)
(* that the literals 1e-12 and 1e-6 of the source are exact.  Arithmetic   *)
(* (+ - * / and integer powers) is exact.  The library functions np.log,   *)
(* np.sqrt / **0.5 and norm.cdf are finite-precision tables (Ln, Sqrt,     *)
(* NormCdf below); K ** (1/p) is the exact root, and the inputs are drawn  *)
(* from strikes that have one.                                             *)
(***************************************************************************)
EXTENDS Integers, Sequences, FiniteSets, TLC

VARIABLES
    op,              \* the function the session called last ("none" at start)
    args,            \* its arguments
    ret,             \* its outcome: [kind |-> "value" | "nan" | "raise", ...]
    quads,           \* the quad() calls the last pricing call made, in order
    g_binding,       \* which (g_0, g_1, g_2) triple the module namespace binds
    df_discount_factors, \* module level: the bootstrapped curve
    sabr_surface,    \* module level: the interpolated SABR parameters
    market_point,    \* module level: T, swap_rate_period, payment_period,
                     \* discount_factor (set at the top of cells 12 and 14)
    vanilla_option,  \* module level: the VanillaOption factory's attributes
    warnregistry,    \* interpreter: the locations whose warning was displayed
    shown,           \* warnings the last call displayed
    results          \* results obtained so far for the current arguments

vars == <<op, args, ret, quads, g_binding, df_discount_factors, sabr_surface,
          market_point, vanilla_option, warnregistry, shown, results>>

---------------------------------------------------------------------------
\* Bind(v, F) is F(v): it names an intermediate value, as a local variable
\* of the code does
Bind(v, F(_)) == F(v)

---------------------------------------------------------------------------
(* Exact arithmetic on n/d * 10^e.                                         *)

RECURSIVE GCD(_, _)
GCD(a, b) == IF b = 0 THEN a ELSE GCD(b, a % b)

Abs(x) == IF x < 0 THEN -x ELSE x

RECURSIVE Pow10(_)
Pow10(k) == IF k = 0 THEN 1 ELSE 10 * Pow10(k - 1)

Norm(n, d, e) ==
    IF n = 0 THEN [n |-> 0, d |-> 1, e |-> 0]
    ELSE Bind(GCD(Abs(n), Abs(d)), LAMBDA g :
           IF d < 0 THEN [n |-> (-n) \div g, d |-> (-d) \div g, e |-> e]
           ELSE [n |-> n \div g, d |-> d \div g, e |-> e])

R(n, d) == Norm(n, d, 0)
Dec(n, e) == Norm(n, 1, e)
Zero == R(0, 1)
One == R(1, 1)

RNeg(a) == [a EXCEPT !.n = -a.n]
RAbs(a) == [a EXCEPT !.n = Abs(a.n)]

RMul(a, b) ==
    IF a.n = 0 \/ b.n = 0 THEN Zero
    ELSE Bind(GCD(Abs(a.n), b.d), LAMBDA g1 :
         Bind(GCD(Abs(b.n), a.d), LAMBDA g2 :
           [n |-> (a.n \div g1) * (b.n \div g2),
            d |-> (a.d \div g2) * (b.d \div g1),
            e |-> a.e + b.e]))

RInv(a) == Norm(a.d, a.n, -a.e)
RDiv(a, b) == RMul(a, RInv(b))

RAdd(a, b) ==
    IF a.n = 0 THEN b
    ELSE IF b.n = 0 THEN a
    ELSE Bind(IF a.e < b.e THEN a.e ELSE b.e, LAMBDA e :
         Bind(GCD(a.d, b.d), LAMBDA g :
           Norm(a.n * Pow10(a.e - e) * (b.d \div g)
                  + b.n * Pow10(b.e - e) * (a.d \div g),
                (a.d \div g) * b.d, e)))

RSub(a, b) == RAdd(a, RNeg(b))

\* x * 10^k < y, without forming x * 10^k
RECURSIVE ScaledLt(_, _, _)
ScaledLt(x, k, y) ==
    IF k = 0 THEN x < y ELSE ScaledLt(x, k - 1, -((-y) \div 10))

\* x < y * 10^k, without forming y * 10^k
RECURSIVE LtScaled(_, _, _)
LtScaled(x, k, y) ==
    IF k = 0 THEN x < y ELSE LtScaled(x \div 10, k - 1, y)

RLt(a, b) ==
    IF a.n = 0 THEN b.n > 0
    ELSE IF b.n = 0 THEN a.n < 0
    ELSE Bind(GCD(Abs(a.n), Abs(b.n)), LAMBDA gn :
         Bind(GCD(a.d, b.d), LAMBDA gd :
           IF a.e >= b.e
           THEN ScaledLt((a.n \div gn) * (b.d \div gd), a.e - b.e,
                         (b.n \div gn) * (a.d \div gd))
           ELSE LtScaled((a.n \div gn) * (b.d \div gd), b.e - a.e,
                         (b.n \div gn) * (a.d \div gd))))

RLe(a, b) == ~RLt(b, a)
REq(a, b) ==
    IF a.e = b.e THEN a.n = b.n /\ a.d = b.d
    ELSE ~RLt(a, b) /\ ~RLt(b, a)

RECURSIVE RPowInt(_, _)
RPowInt(a, k) == IF k = 0 THEN One ELSE RMul(a, RPowInt(a, k - 1))

RECURSIVE IPow(_, _)
IPow(b, k) == IF k = 0 THEN 1 ELSE b * IPow(b, k - 1)

\* the exact k-th root of a positive rational that has one
RootExact(a, k) ==
    LET rn == CHOOSE r \in 0..a.n : IPow(r, k) = a.n
        rd == CHOOSE r \in 1..a.d : IPow(r, k) = a.d
    IN  R(rn, rd)

\* a ** (num/den) for a rational power of a number with an exact den-th root
PowFrac(a, num, den) ==
    IF num = 0 THEN One
    ELSE IF num > 0 THEN RPowInt(RootExact(a, den), num)
    ELSE RInv(RPowInt(RootExact(a, den), -num))

---------------------------------------------------------------------------
(* Outcomes of a Python call.                                              *)

Value(v) == [kind |-> "value", val |-> v]
NaN == [kind |-> "nan"]
Raise(exc) == [kind |-> "raise", exc |-> exc]
NoOutcome == [kind |-> "none"]

---------------------------------------------------------------------------
(* Annuity model: IRR_0, IRR_1, IRR_2 (cell 4).  m and N are integers.     *)

IRR_0(K, m, N) ==
    RMul(RDiv(One, K),
         RSub(One, RDiv(One, RPowInt(RAdd(One, RDiv(K, R(m, 1))), m * N))))

IRR_1(K, m, N) ==
    RAdd(RMul(RDiv(R(-1, 1), K), IRR_0(K, m, N)),
         RDiv(RMul(RMul(RDiv(One, RMul(K, R(m, 1))), R(N, 1)), R(m, 1)),
              RPowInt(RAdd(One, RDiv(K, R(m, 1))), N * m + 1)))

IRR_2(K, m, N) ==
    RSub(RMul(RDiv(R(-2, 1), K), IRR_1(K, m, N)),
         RDiv(RMul(RMul(RDiv(One, RMul(RMul(K, R(m, 1)), R(m, 1))), R(N * m, 1)),
                   R(N * m + 1, 1)),
              RPowInt(RAdd(One, RDiv(K, R(m, 1))), N * m + 2)))

IRR(i, K, m, N) ==
    CASE i = 0 -> IRR_0(K, m, N)
      [] i = 1 -> IRR_1(K, m, N)
      [] i = 2 -> IRR_2(K, m, N)

\* What a call IRR_i(K, m, N) does.  Every IRR_i starts by dividing by K:
\* 1 / K, -1 / K, -2 / K.  With K a Python float (or int) that equals 0 the
\* division raises ZeroDivisionError; with K a numpy float64 it gives an
\* infinity, and the product with the zero bracket is NaN.
IRR_call(i, K, m, N, numtype) ==
    IF K.n = 0
    THEN IF numtype = "float" THEN Raise("ZeroDivisionError") ELSE NaN
    ELSE Value(IRR(i, K, m, N))

---------------------------------------------------------------------------
(* Payoff decomposition (cell 10).  g_0, g_1, g_2 are the notebook's       *)
(* payoff K^(1/p) - 0.04^(1/q); h_0, h_1, h_2 read whatever triple the     *)
(* module namespace binds to the names g_0, g_1, g_2.                      *)

p == 4
q == 2
FloorLevel == R(4, 100)

g_0(K) == RSub(PowFrac(K, 1, p), PowFrac(FloorLevel, 1, q))
g_1(K) == RMul(R(1, p), PowFrac(K, 1 - p, p))
g_2(K) == RMul(RMul(R(1, p), RSub(R(1, p), One)), PowFrac(K, 1 - 2 * p, p))

\* the linear payoff g(K) = K of the composition test: g' = 1, g'' = 0
lin_g_0(K) == K
lin_g_1(K) == One
lin_g_2(K) == Zero

G0(g, K) == IF g = "power" THEN g_0(K) ELSE lin_g_0(K)
G1(g, K) == IF g = "power" THEN g_1(K) ELSE lin_g_1(K)
G2(g, K) == IF g = "power" THEN g_2(K) ELSE lin_g_2(K)

h_0(g, K, m, N) == RDiv(G0(g, K), IRR_0(K, m, N))

h_1(g, K, m, N) ==
    RDiv(RSub(RMul(IRR_0(K, m, N), G1(g, K)), RMul(G0(g, K), IRR_1(K, m, N))),
         RPowInt(IRR_0(K, m, N), 2))

\* a faulty h_2: the cross term 2 * IRR_1 * g_1 is left out
h_2_without_cross_term(g, K, m, N) ==
    RAdd(RDiv(RSub(RMul(IRR_0(K, m, N), G2(g, K)),
                   RMul(IRR_2(K, m, N), G0(g, K))),
              RPowInt(IRR_0(K, m, N), 2)),
         RDiv(RMul(RMul(R(2, 1), RPowInt(IRR_1(K, m, N), 2)), G0(g, K)),
              RPowInt(IRR_0(K, m, N), 3)))

h_2(g, K, m, N) ==
    RAdd(RDiv(RSub(RSub(RMul(IRR_0(K, m, N), G2(g, K)),
                        RMul(IRR_2(K, m, N), G0(g, K))),
                   RMul(RMul(R(2, 1), IRR_1(K, m, N)), G1(g, K))),
              RPowInt(IRR_0(K, m, N), 2)),
         RDiv(RMul(RMul(R(2, 1), RPowInt(IRR_1(K, m, N), 2)), G0(g, K)),
              RPowInt(IRR_0(K, m, N), 3)))

h(i, g, K, m, N) ==
    CASE i = 0 -> h_0(g, K, m, N)
      [] i = 1 -> h_1(g, K, m, N)
      [] i = 2 -> h_2(g, K, m, N)

---------------------------------------------------------------------------
(* Library functions, to finite precision.                                 *)

\* np.log to the nearest half, away from zero between the knots
\* exp(3/4), exp(5/4), ... (times 100); exact at 1 and odd: Ln(1/x) = -Ln(x)
LnKnots == <<212, 349, 575, 949, 1564, 2579, 4252, 7011, 11558, 19057,
             31419, 51801>>

RECURSIVE LnHalves(_, _)
LnHalves(y, i) ==
    IF i > Len(LnKnots) \/ RLt(y, R(LnKnots[i], 100)) THEN i
    ELSE LnHalves(y, i + 1)

Ln(x) ==
    IF REq(x, One) THEN Zero
    ELSE IF RLt(One, x) THEN R(LnHalves(x, 1), 2)
    ELSE R(-LnHalves(RInv(x), 1), 2)

\* np.sqrt and ** 0.5, rounded up to a multiple of 1/4: the least k with
\* x <= (k/4)^2, found by doubling and bisection
RECURSIVE SqrtAbove(_, _)
SqrtAbove(x, k) ==
    IF RLe(x, R(k * k, 16)) THEN k ELSE SqrtAbove(x, 2 * k)

RECURSIVE SqrtBisect(_, _, _)
SqrtBisect(x, lo, hi) ==
    IF hi - lo <= 1 THEN hi
    ELSE IF RLe(x, R(((lo + hi) \div 2) * ((lo + hi) \div 2), 16))
         THEN SqrtBisect(x, lo, (lo + hi) \div 2)
         ELSE SqrtBisect(x, (lo + hi) \div 2, hi)

Sqrt(x) == R(SqrtBisect(x, -1, SqrtAbove(x, 1)), 4)

\* norm.cdf on the grid 0, 1/2, 1, 3/2, 2: the argument is rounded to the
\* nearest half; NormCdf(-x) = 1 - NormCdf(x)
NormCdfTable == <<R(1, 2), R(7, 10), R(17, 20), R(19, 20), One>>

RECURSIVE NormCdfIndex(_, _)
NormCdfIndex(y, i) ==
    IF i >= Len(NormCdfTable) \/ RLt(y, R(2 * i - 1, 4)) THEN i
    ELSE NormCdfIndex(y, i + 1)

NormCdf(x) ==
    IF x.n >= 0 THEN NormCdfTable[NormCdfIndex(x, 1)]
    ELSE RSub(One, NormCdfTable[NormCdfIndex(RNeg(x), 1)])

---------------------------------------------------------------------------
(* Black-76 (cell 3).  An instance is the record of its attributes.        *)

calculate_d1(self) ==
    RDiv(RAdd(Ln(RDiv(self.F, self.K)),
              RMul(RDiv(RPowInt(self.sigma, 2), R(2, 1)), self.T)),
         RMul(self.sigma, Sqrt(self.T)))

calculate_d2(self) == RSub(self.d1, RMul(self.sigma, Sqrt(self.T)))

AbstractBlack76Model(F, K, discount_factor, sigma, T) ==
    Bind(calculate_d1([F |-> F, K |-> K, sigma |-> sigma, T |-> T]),
         LAMBDA d1 :
           [F |-> F, K |-> K, sigma |-> sigma, T |-> T, d1 |-> d1,
            d2 |-> calculate_d2([F |-> F, K |-> K, sigma |-> sigma, T |-> T,
                                 d1 |-> d1]),
            discount_factor |-> discount_factor])

VanillaBlack76Model(F, K, discount_factor, sigma, T) ==
    AbstractBlack76Model(F, K, discount_factor, sigma, T)

calculate_call_price(self) ==
    RMul(self.discount_factor,
         RSub(RMul(self.F, NormCdf(self.d1)), RMul(self.K, NormCdf(self.d2))))

calculate_put_price(self) ==
    RMul(self.discount_factor,
         RAdd(RMul(RNeg(self.F), NormCdf(RNeg(self.d1))),
              RMul(self.K, NormCdf(RNeg(self.d2)))))

\* a faulty factory: it keeps the first instance it built and returns it
\* for every later call
black_model_memoised(self, F, K, discount_factor, sigma, T) ==
    IF self = <<>>
    THEN [instance |-> VanillaBlack76Model(F, K, discount_factor, sigma, T),
          self |-> <<VanillaBlack76Model(F, K, discount_factor, sigma, T)>>]
    ELSE [instance |-> self[1], self |-> self]

\* VanillaOption.black_model(self, ...): the instance it returns and the
\* factory object afterwards (no attribute of self is read or written)
black_model(self, F, K, discount_factor, sigma, T) ==
    [instance |-> VanillaBlack76Model(F, K, discount_factor, sigma, T),
     self |-> self]

---------------------------------------------------------------------------
(* SABR implied volatility (cell 3).                                       *)

\* x ** e for the exponents the formula forms from beta
RPow(x, e) == PowFrac(x, e.n, e.d)

ATM_TOL == Dec(1, -12)

\* a faulty test: the at-the-money branch taken up to and including 1e-12
SABR_branch_inclusive(F, K) ==
    IF RLe(RAbs(RSub(F, K)), ATM_TOL) THEN "atm" ELSE "hagan"

\* the branch the test `abs(F - K) < 1e-12` selects
SABR_branch(F, K) ==
    IF RLt(RAbs(RSub(F, K)), ATM_TOL) THEN "atm" ELSE "hagan"

\* numer3, the same expression in both branches
SABR_numer3(rho, nu) ==
    RMul(RMul(RDiv(RSub(R(2, 1), RMul(RMul(R(3, 1), rho), rho)), R(24, 1)), nu), nu)

SABR_numer1_atm(F, alpha, beta) ==
    RDiv(RMul(RMul(RDiv(RPowInt(RSub(One, beta), 2), R(24, 1)), alpha), alpha),
         RPow(F, RSub(R(2, 1), RMul(R(2, 1), beta))))

SABR_numer2_atm(F, alpha, beta, rho, nu) ==
    RDiv(RMul(RMul(RMul(RMul(R(1, 4), rho), beta), nu), alpha),
         RPow(F, RSub(One, beta)))

\* VolAtm
SABR_atm(F, K, T, alpha, beta, rho, nu) ==
    RDiv(RMul(alpha,
              RAdd(One,
                   RMul(RAdd(RAdd(SABR_numer1_atm(F, alpha, beta),
                                  SABR_numer2_atm(F, alpha, beta, rho, nu)),
                             SABR_numer3(rho, nu)),
                        T))),
         RPow(F, RSub(One, beta)))

SABR_z(F, X, alpha, beta, nu) ==
    RMul(RMul(RDiv(nu, alpha),
              RPow(RMul(F, X), RMul(R(1, 2), RSub(One, beta)))),
         Ln(RDiv(F, X)))

SABR_zhi(z, rho) ==
    Ln(RDiv(RSub(RAdd(Sqrt(RAdd(RSub(One, RMul(RMul(R(2, 1), rho), z)),
                                RMul(z, z))),
                      z),
                 rho),
            RSub(One, rho)))

SABR_numer1(F, X, alpha, beta) ==
    RMul(RDiv(RPowInt(RSub(One, beta), 2), R(24, 1)),
         RDiv(RMul(alpha, alpha), RPow(RMul(F, X), RSub(One, beta))))

SABR_numer2(F, X, alpha, beta, rho, nu) ==
    RDiv(RMul(RMul(RMul(RMul(R(1, 4), rho), beta), nu), alpha),
         RPow(RMul(F, X), RDiv(RSub(One, beta), R(2, 1))))

SABR_numer(F, X, T, alpha, beta, rho, nu, z) ==
    RMul(RMul(alpha,
              RAdd(One,
                   RMul(RAdd(RAdd(SABR_numer1(F, X, alpha, beta),
                                  SABR_numer2(F, X, alpha, beta, rho, nu)),
                             SABR_numer3(rho, nu)),
                        T))),
         z)

SABR_denom1(F, X, beta) ==
    RMul(RDiv(RPowInt(RSub(One, beta), 2), R(24, 1)),
         RPowInt(Ln(RDiv(F, X)), 2))

SABR_denom2(F, X, beta) ==
    RMul(RDiv(RPowInt(RSub(One, beta), 4), R(1920, 1)),
         RPowInt(Ln(RDiv(F, X)), 4))

SABR_denom(F, X, beta, zhi) ==
    RMul(RMul(RPow(RMul(F, X), RDiv(RSub(One, beta), R(2, 1))),
              RAdd(RAdd(One, SABR_denom1(F, X, beta)), SABR_denom2(F, X, beta))),
         zhi)

\* numer / denom, with X = K
SABR_hagan(F, K, T, alpha, beta, rho, nu) ==
    Bind(SABR_z(F, K, alpha, beta, nu), LAMBDA z :
      RDiv(SABR_numer(F, K, T, alpha, beta, rho, nu, z),
           SABR_denom(F, K, beta, SABR_zhi(z, rho))))

SABR_model(F, K, T, alpha, beta, rho, nu) ==
    IF SABR_branch(F, K) = "atm"
    THEN SABR_atm(F, K, T, alpha, beta, rho, nu)
    ELSE SABR_hagan(F, K, T, alpha, beta, rho, nu)

---------------------------------------------------------------------------
(* IRR-settled swaption price (cell 5).  vo is the module-level            *)
(* vanilla_option the function reads; the result carries it back.          *)

discount_factor_numeraire == One

\* a faulty variant: the annuity is taken at the strike K
irr_settled_option_price_annuity_at_K(vo, discount_factor, F, K, sigma, T, m, N, swaption_type) ==
    Bind(black_model(vo, F, K, discount_factor_numeraire, sigma, T), LAMBDA bm :
      [val |-> RMul(RMul(discount_factor, IRR_0(K, m, N)),
                    IF swaption_type = "receiver"
                    THEN calculate_put_price(bm.instance)
                    ELSE calculate_call_price(bm.instance)),
       vanilla_option |-> bm.self])

\* a faulty variant: the Black price is discounted a second time
irr_settled_option_price_discounted_twice(vo, discount_factor, F, K, sigma, T, m, N, swaption_type) ==
    Bind(black_model(vo, F, K, discount_factor, sigma, T), LAMBDA bm :
      [val |-> RMul(RMul(discount_factor, IRR_0(F, m, N)),
                    IF swaption_type = "receiver"
                    THEN calculate_put_price(bm.instance)
                    ELSE calculate_call_price(bm.instance)),
       vanilla_option |-> bm.self])

\* irr_0 = IRR_0(F, m, N); black_model = vanilla_option.black_model(...);
\* price = put for "receiver", call otherwise; discount_factor * irr_0 * price
irr_settled_option_price(vo, discount_factor, F, K, sigma, T, m, N, swaption_type) ==
    Bind(black_model(vo, F, K, discount_factor_numeraire, sigma, T), LAMBDA bm :
      [val |-> RMul(RMul(discount_factor, IRR_0(F, m, N)),
                    IF swaption_type = "receiver"
                    THEN calculate_put_price(bm.instance)
                    ELSE calculate_call_price(bm.instance)),
       vanilla_option |-> bm.self])

---------------------------------------------------------------------------
(* Forward swap rate (cell 2) and the SABR interpolators (cell 9).         *)
(* The curve maps a term to its row; the surface is flat in expiry and     *)
(* tenor, so an interpolator returns the surface's parameter.              *)

\* np.arange(start, stop, step), step > 0
RECURSIVE arange(_, _, _)
arange(start, stop, step) ==
    IF RLt(start, stop) THEN <<start>> \o arange(RAdd(start, step), stop, step)
    ELSE <<>>

\* np.sum
RECURSIVE np_sum(_)
np_sum(xs) == IF xs = <<>> THEN Zero ELSE RAdd(Head(xs), np_sum(Tail(xs)))

floating_leg_pv(floating_leg_term, df, floating_leg_period) ==
    np_sum([i \in 1..Len(floating_leg_term) |->
              RMul(RMul(floating_leg_period,
                        df[floating_leg_term[i]].ForwardLIBOR),
                   df[floating_leg_term[i]].DiscountFactorOIS)])

fixed_leg_pv(fixed_leg_terms, df, fixed_leg_period) ==
    np_sum([i \in 1..Len(fixed_leg_terms) |->
              RMul(fixed_leg_period, df[fixed_leg_terms[i]].DiscountFactorOIS)])

compute_forward_swap_rate(expiry, tenor, df, floating_leg_period, fixed_leg_period) ==
    Bind(RAdd(expiry, tenor), LAMBDA swap_end_time :
      RDiv(floating_leg_pv(arange(RAdd(expiry, floating_leg_period),
                                  RAdd(swap_end_time, floating_leg_period),
                                  floating_leg_period),
                           df, floating_leg_period),
           fixed_leg_pv(arange(RAdd(expiry, fixed_leg_period),
                               RAdd(swap_end_time, fixed_leg_period),
                               fixed_leg_period),
                        df, fixed_leg_period)))

sabr_alpha_interp(surface, expiry, tenor) == surface.alpha
sabr_beta_interp(surface, expiry, tenor) == surface.beta
sabr_rho_interp(surface, expiry, tenor) == surface.rho
sabr_nu_interp(surface, expiry, tenor) == surface.nu

---------------------------------------------------------------------------
(* scipy.integrate.quad.  The integral over [a, b] is a fixed rule on the  *)
(* geometric strike grid 1/16, 1, 16 (node x, weight x): the sum over the  *)
(* nodes inside [a, b].  Called without full_output, quad returns the pair *)
(* (value, abserr) whether or not the routine met its tolerance; when it   *)
(* did not, it issues an IntegrationWarning and still returns the pair.    *)

Infinity == [n |-> 1, d |-> 0, e |-> 0]

QuadRule == <<[x |-> R(1, 16), w |-> R(1, 16)],
              [x |-> R(1, 1), w |-> R(1, 1)],
              [x |-> R(16, 1), w |-> R(16, 1)]>>

InRange(x, a, b) == RLe(a, x) /\ (b = Infinity \/ RLe(x, b))

\* the integer a whole-valued number stands for
IntOf(r) == r.n * Pow10(r.e)

\* the lambda of cells 11 and 13: c holds the variables it closes over
Integrand(c, x, vo) ==
    Bind(irr_settled_option_price(vo, c.discount_factor, c.F, x,
             SABR_model(c.F, x, c.expiry, c.alpha, c.beta, c.rho, c.nu),
             c.expiry, IntOf(RDiv(One, c.payment_period)), IntOf(c.tenor),
             c.swaption_type),
         LAMBDA price :
           [val |-> RMul(h_2(c.g, x, IntOf(RDiv(One, c.payment_period)),
                             IntOf(c.tenor)),
                         price.val),
            vanilla_option |-> price.vanilla_option])

RECURSIVE QuadFrom(_, _, _, _, _)
QuadFrom(c, a, b, vo, i) ==
    IF i > Len(QuadRule) THEN [val |-> Zero, vanilla_option |-> vo]
    ELSE IF ~InRange(QuadRule[i].x, a, b) THEN QuadFrom(c, a, b, vo, i + 1)
    ELSE Bind(Integrand(c, QuadRule[i].x, vo), LAMBDA f :
         Bind(QuadFrom(c, a, b, f.vanilla_option, i + 1), LAMBDA rest :
           [val |-> RAdd(RMul(QuadRule[i].w, f.val), rest.val),
            vanilla_option |-> rest.vanilla_option]))

quad(c, a, b, vo) ==
    Bind(QuadFrom(c, a, b, vo, 1), LAMBDA s :
      [result |-> <<s.val, "abserr">>,
       call |-> [a |-> a, b |-> b, swaption_type |-> c.swaption_type],
       vanilla_option |-> s.vanilla_option])

---------------------------------------------------------------------------
(* The two pricing functions (cells 11 and 13).  g, surface and vo are the *)
(* module-level names the body reads.  A result carries the returned      *)
(* value, the quad calls made, in order, and the vanilla_option object     *)
(* afterwards.                                                             *)

LowerCutoff == Dec(1, -6)

Closure(g, surface, F, expiry, tenor, payment_period, discount_factor, swaption_type) ==
    [g |-> g, F |-> F, expiry |-> expiry, tenor |-> tenor,
     payment_period |-> payment_period, discount_factor |-> discount_factor,
     alpha |-> sabr_alpha_interp(surface, expiry, tenor),
     beta |-> sabr_beta_interp(surface, expiry, tenor),
     rho |-> sabr_rho_interp(surface, expiry, tenor),
     nu |-> sabr_nu_interp(surface, expiry, tenor),
     swaption_type |-> swaption_type]

second_term == Zero

\* a faulty variant: the payer integral starts at the lower cutoff
compute_options_payoff_1_payer_from_cutoff(vo, g, surface, expiry, tenor, payment_period, discount_factor, df) ==
    Bind(compute_forward_swap_rate(expiry, tenor, df, payment_period,
                                   payment_period), LAMBDA F :
    Bind(quad(Closure(g, surface, F, expiry, tenor, payment_period,
                      discount_factor, "receiver"),
              LowerCutoff, F, vo), LAMBDA third :
    Bind(quad(Closure(g, surface, F, expiry, tenor, payment_period,
                      discount_factor, "payer"),
              LowerCutoff, Infinity, third.vanilla_option), LAMBDA fourth :
      [val |-> RAdd(RAdd(RAdd(RMul(discount_factor, G0(g, F)), second_term),
                         third.result[1]),
                    fourth.result[1]),
       quads |-> <<third.call, fourth.call>>,
       vanilla_option |-> fourth.vanilla_option])))

\* first_term + second_term + third_term + fourth_term, the last two being
\* quad(...)[0]
compute_options_payoff_1(vo, g, surface, expiry, tenor, payment_period, discount_factor, df) ==
    Bind(compute_forward_swap_rate(expiry, tenor, df, payment_period,
                                   payment_period), LAMBDA F :
    Bind(quad(Closure(g, surface, F, expiry, tenor, payment_period,
                      discount_factor, "receiver"),
              LowerCutoff, F, vo), LAMBDA third :
    Bind(quad(Closure(g, surface, F, expiry, tenor, payment_period,
                      discount_factor, "payer"),
              F, Infinity, third.vanilla_option), LAMBDA fourth :
      [val |-> RAdd(RAdd(RAdd(RMul(discount_factor, G0(g, F)), second_term),
                         third.result[1]),
                    fourth.result[1]),
       quads |-> <<third.call, fourth.call>>,
       vanilla_option |-> fourth.vanilla_option])))

\* first_term + second_term, the second being quad(...)[0]
compute_options_payoff_2(vo, g, surface, L, expiry, tenor, payment_period, discount_factor, df) ==
    Bind(compute_forward_swap_rate(expiry, tenor, df, payment_period,
                                   payment_period), LAMBDA F :
    Bind(irr_settled_option_price(vo, discount_factor, F, L,
             SABR_model(F, L, expiry, sabr_alpha_interp(surface, expiry, tenor),
                        sabr_beta_interp(surface, expiry, tenor),
                        sabr_rho_interp(surface, expiry, tenor),
                        sabr_nu_interp(surface, expiry, tenor)),
             expiry, IntOf(RDiv(One, payment_period)), IntOf(tenor), "payer"),
         LAMBDA price :
    Bind(quad(Closure(g, surface, F, expiry, tenor, payment_period,
                      discount_factor, "payer"),
              F, Infinity, price.vanilla_option), LAMBDA second :
      [val |-> RAdd(RMul(price.val,
                         h_1(g, L, IntOf(RDiv(One, payment_period)),
                             IntOf(tenor))),
                    second.result[1]),
       quads |-> <<second.call>>,
       vanilla_option |-> second.vanilla_option])))

---------------------------------------------------------------------------
(* Module-level objects of the notebook.                                   *)

\* an object with no attributes: VanillaOption defines no __init__
EmptyObject == <<>>

NoMarket == "unset"

Idle ==
    /\ op = "none"
    /\ args = [fn |-> "none"]
    /\ ret = NoOutcome
    /\ quads = <<>>
    /\ shown = {}
    /\ results = {}

ModuleLevelAtStart ==
    /\ g_binding = "power"
    /\ vanilla_option = EmptyObject
    /\ warnregistry = {}

---------------------------------------------------------------------------
(* SpecAnnuity: calls of IRR_0/1/2 and h_0/1/2 (cells 4 and 10).           *)

Freqs == {1, 2}
Tenors == {1, 2}
Orders == {0, 1, 2}
NumTypes == {"float", "float64"}

\* strikes with an exact fourth root (needed by the notebook's g)
RootStrikes == {R(1, 16), R(1, 1), R(16, 1)}
\* strikes for the annuity functions and the linear payoff
PlainStrikes == {R(1, 2), R(1, 1), R(2, 1)}

InitAnnuity ==
    /\ Idle
    /\ ModuleLevelAtStart
    /\ df_discount_factors = NoMarket
    /\ sabr_surface = NoMarket
    /\ market_point = NoMarket

Call_IRR ==
    \E i \in Orders, K \in PlainStrikes \cup {Zero}, m \in Freqs, N \in Tenors,
       numtype \in NumTypes :
        /\ op' = "IRR"
        /\ args' = [fn |-> "IRR", i |-> i, K |-> K, m |-> m, N |-> N,
                    numtype |-> numtype]
        /\ ret' = IRR_call(i, K, m, N, numtype)
        /\ UNCHANGED <<quads, g_binding, df_discount_factors, sabr_surface,
                       market_point, vanilla_option, warnregistry, shown, results>>

\* the (K, m, N) at which h is called under the bound g triple: the power
\* payoff needs a strike with an exact fourth root
HGrid(g) ==
    IF g = "power" THEN RootStrikes \X {1} \X Tenors
    ELSE PlainStrikes \X Freqs \X Tenors

Call_h ==
    \E i \in Orders, a \in HGrid(g_binding) :
      LET K == a[1]  m == a[2]  N == a[3] IN
        /\ op' = "h"
        /\ args' = [fn |-> "h", i |-> i, K |-> K, m |-> m, N |-> N,
                    g |-> g_binding]
        /\ ret' = Value(h(i, g_binding, K, m, N))
        /\ UNCHANGED <<quads, g_binding, df_discount_factors, sabr_surface,
                       market_point, vanilla_option, warnregistry, shown, results>>

\* the user re-runs cell 10 with another payoff: g_0, g_1, g_2 are rebound
Rebind_g ==
    \E g \in {"power", "linear"} :
        /\ g # g_binding
        /\ g_binding' = g
        /\ UNCHANGED <<op, args, ret, quads, df_discount_factors, sabr_surface,
                       market_point, vanilla_option, warnregistry, shown, results>>

NextAnnuity == Call_IRR \/ Call_h \/ Rebind_g

SpecAnnuity == InitAnnuity /\ [][NextAnnuity]_vars

CalledIRR == op = "IRR"
CalledH(i, g) == op = "h" /\ args.i = i /\ args.g = g

\* C4 (annuity part): a call IRR_i(K, m, N) with K = 0 raises no exception;
\* what comes back is a non-finite number.
C4_ZeroRateGivesNonFinite ==
    (CalledIRR /\ args.K.n = 0) => ret.kind = "nan"

\* the call the statement is about: IRR_i at K = 0 with K a Python float
C4_ZeroRateCalled ==
    CalledIRR /\ args.K.n = 0 /\ args.numtype = "float"

\* -IRR_2/IRR_0^2 + 2 IRR_1^2/IRR_0^3
AnnuityOnlyTerm(K, m, N) ==
    RAdd(RNeg(RDiv(IRR_2(K, m, N), RPowInt(IRR_0(K, m, N), 2))),
         RDiv(RMul(R(2, 1), RPowInt(IRR_1(K, m, N), 2)),
              RPowInt(IRR_0(K, m, N), 3)))

\* C10, as stated: with the linear payoff g(K) = K bound (g' = 1, g'' = 0),
\* h_2(K) equals -IRR_2/IRR_0^2 + 2 IRR_1^2/IRR_0^3.
C10_LinearCollapseAsStated ==
    CalledH(2, "linear") =>
        REq(ret.val, AnnuityOnlyTerm(args.K, args.m, args.N))

\* C10, amended: with the linear payoff bound, h_0 = K/IRR_0,
\* h_1 = (IRR_0 - K IRR_1)/IRR_0^2 and
\* h_2 = K (-IRR_2/IRR_0^2 + 2 IRR_1^2/IRR_0^3) - 2 IRR_1/IRR_0^2:
\* the g_0 factor K and the cross term -2 IRR_1 g_1/IRR_0^2 remain.
C10_LinearCollapse ==
    LET K == args.K  m == args.m  N == args.N IN
    /\ CalledH(0, "linear") => REq(ret.val, RDiv(K, IRR_0(K, m, N)))
    /\ CalledH(1, "linear") =>
          REq(ret.val, RDiv(RSub(IRR_0(K, m, N), RMul(K, IRR_1(K, m, N))),
                            RPowInt(IRR_0(K, m, N), 2)))
    /\ CalledH(2, "linear") =>
          REq(ret.val,
              RSub(RMul(K, AnnuityOnlyTerm(K, m, N)),
                   RDiv(RMul(R(2, 1), IRR_1(K, m, N)),
                        RPowInt(IRR_0(K, m, N), 2))))

\* h_2 has been called with the linear payoff bound, semi-annual payments
C10_LinearH2Called ==
    CalledH(2, "linear") /\ args.m = 2 /\ args.N = 2 /\ ret.kind = "value"

---------------------------------------------------------------------------
(* SpecPrice: irr_settled_option_price on one set of arguments, quoted as  *)
(* payer and as receiver.                                                  *)

Discounts == {R(1, 2), R(9, 10)}
Vols == {R(1, 2), R(1, 1), R(2, 1)}
Expiries == {R(1, 1), R(4, 1)}
SwaptionTypes == {"payer", "receiver"}

InitPrice ==
    /\ ModuleLevelAtStart
    /\ df_discount_factors = NoMarket
    /\ sabr_surface = NoMarket
    /\ market_point = NoMarket
    /\ op = "none"
    /\ ret = NoOutcome
    /\ quads = <<>>
    /\ shown = {}
    /\ results = {}
    /\ \E discount_factor \in Discounts, F \in PlainStrikes, K \in PlainStrikes,
          sigma \in Vols, T \in Expiries, m \in Freqs, N \in Tenors :
         args = [fn |-> "irr_settled_option_price",
                 discount_factor |-> discount_factor, F |-> F, K |-> K,
                 sigma |-> sigma, T |-> T, m |-> m, N |-> N]

Quoted_at(swaption_type, r) ==
    /\ op' = "irr_settled_option_price"
    /\ ret' = Value(r.val)
    /\ results' = results \cup
                    {[swaption_type |-> swaption_type, price |-> r.val]}
    /\ vanilla_option' = r.vanilla_option
    /\ UNCHANGED <<args, quads, g_binding, df_discount_factors, sabr_surface,
                   market_point, warnregistry, shown>>

\* one call of irr_settled_option_price on the drawn arguments
Quote(swaption_type) ==
    Quoted_at(swaption_type,
              irr_settled_option_price(vanilla_option, args.discount_factor,
                  args.F, args.K, args.sigma, args.T, args.m, args.N,
                  swaption_type))

Quote_payer == Quote("payer")
Quote_receiver == Quote("receiver")

NextPrice == Quote_payer \/ Quote_receiver

SpecPrice == InitPrice /\ [][NextPrice]_vars

Quoted(swaption_type) ==
    \E r \in results : r.swaption_type = swaption_type

\* C6: for one (discount_factor, F, K, sigma, T, m, N), the payer price
\* minus the receiver price equals discount_factor * IRR_0(F, m, N) * (F - K).
C6_PutCallParity ==
    \A rp \in results, rr \in results :
        (rp.swaption_type = "payer" /\ rr.swaption_type = "receiver") =>
            REq(RSub(rp.price, rr.price),
                RMul(RMul(args.discount_factor, IRR_0(args.F, args.m, args.N)),
                     RSub(args.F, args.K)))

\* both sides have been quoted, away from the money
C6_BothQuoted ==
    /\ Quoted("payer")
    /\ Quoted("receiver")
    /\ RLt(args.K, args.F)
    /\ \A r \in results : r.price.n # 0

\* Black-76 undiscounted call and put, written out
Black76Call(F, K, sigma, T) ==
    LET sd == RMul(sigma, Sqrt(T))
        d1 == RDiv(RAdd(Ln(RDiv(F, K)), RDiv(RMul(RMul(sigma, sigma), T), R(2, 1))),
                   sd)
    IN  RSub(RMul(F, NormCdf(d1)), RMul(K, NormCdf(RSub(d1, sd))))

Black76Put(F, K, sigma, T) ==
    LET sd == RMul(sigma, Sqrt(T))
        d1 == RDiv(RAdd(Ln(RDiv(F, K)), RDiv(RMul(RMul(sigma, sigma), T), R(2, 1))),
                   sd)
    IN  RSub(RMul(K, NormCdf(RNeg(RSub(d1, sd)))), RMul(F, NormCdf(RNeg(d1))))

\* C7: 'receiver' is priced with the Black-76 put and 'payer' with the
\* call; the annuity is IRR_0 at the forward F; the Black price carries
\* discount factor 1; the result is discount_factor * IRR_0(F, m, N) * price.
C7_IrrSettledPrice ==
    \A r \in results :
        REq(r.price,
            RMul(RMul(args.discount_factor, IRR_0(args.F, args.m, args.N)),
                 IF r.swaption_type = "receiver"
                 THEN Black76Put(args.F, args.K, args.sigma, args.T)
                 ELSE Black76Call(args.F, args.K, args.sigma, args.T)))

\* a receiver has been quoted where put and call differ and F # K
C7_ReceiverQuoted ==
    /\ op = "irr_settled_option_price"
    /\ Quoted("receiver")
    /\ ~REq(args.F, args.K)
    /\ ~REq(args.discount_factor, One)
    /\ ~REq(Black76Put(args.F, args.K, args.sigma, args.T),
            Black76Call(args.F, args.K, args.sigma, args.T))
    /\ \A r \in results : r.price.n # 0

---------------------------------------------------------------------------
(* SpecSABR: calls of SABR_model.  Strikes come in two scales: the payoff  *)
(* strikes, and forwards and strikes a few 1e-13 apart, on both sides of   *)
(* the tolerance 1e-12 of the at-the-money test.                           *)

\* forward and strikes in units of 1e-13: |F - K| is 0, 1, 9, 10 or 11 units
TickForward == Dec(20, -13)
TickStrikes == {Dec(k, -13) : k \in {9, 10, 11, 19, 20, 21, 29, 30, 31}}

Alphas == {R(1, 4), R(1, 2), R(1, 1)}
Betas == {Zero, R(1, 2), One}
Rhos == {R(-1, 2), Zero, R(1, 2)}
Nus == {R(1, 2), R(1, 1), R(2, 1)}

\* (F, K, beta): at the 1e-13 scale beta = 1, where no power of F is formed
SABRGrid ==
    (RootStrikes \X RootStrikes \X Betas)
    \cup ({TickForward} \X TickStrikes \X {One})

InitSABR ==
    /\ ModuleLevelAtStart
    /\ df_discount_factors = NoMarket
    /\ sabr_surface = NoMarket
    /\ market_point = NoMarket
    /\ op = "none"
    /\ ret = NoOutcome
    /\ quads = <<>>
    /\ shown = {}
    /\ results = {}
    /\ \E a \in SABRGrid, T \in Expiries, alpha \in Alphas, rho \in Rhos,
          nu \in Nus :
         args = [fn |-> "SABR_model", F |-> a[1], K |-> a[2], T |-> T,
                 alpha |-> alpha, beta |-> a[3], rho |-> rho, nu |-> nu]

Call_SABR_model ==
    /\ op = "none"
    /\ op' = "SABR_model"
    /\ ret' = [kind |-> "value",
               val |-> SABR_model(args.F, args.K, args.T, args.alpha,
                                  args.beta, args.rho, args.nu),
               branch |-> SABR_branch(args.F, args.K)]
    /\ UNCHANGED <<args, quads, g_binding, df_discount_factors, sabr_surface,
                   market_point, vanilla_option, warnregistry, shown, results>>

NextSABR == Call_SABR_model

SpecSABR == InitSABR /\ [][NextSABR]_vars

\* C8: SABR_model returns the at-the-money formula exactly when
\* |F - K| < 1e-12 (strict), and the Hagan expansion in z and zhi for every
\* other strike, |F - K| = 1e-12 included; numer3 is the same in both.
C8_SABRBranch ==
    op = "SABR_model" =>
        LET F == args.F  K == args.K
            gap == IF RLt(F, K) THEN RSub(K, F) ELSE RSub(F, K)
        IN  IF RLt(gap, Dec(1, -12))
            THEN /\ ret.branch = "atm"
                 /\ REq(ret.val, SABR_atm(F, K, args.T, args.alpha, args.beta,
                                          args.rho, args.nu))
            ELSE /\ ret.branch = "hagan"
                 /\ REq(ret.val, SABR_hagan(F, K, args.T, args.alpha, args.beta,
                                            args.rho, args.nu))

\* SABR_model has been called with |F - K| exactly 1e-12
C8_AtTolerance ==
    /\ op = "SABR_model"
    /\ REq(RAbs(RSub(args.F, args.K)), Dec(1, -12))
    /\ ret.branch = "hagan"
    /\ ~REq(ret.val, SABR_atm(args.F, args.K, args.T, args.alpha, args.beta,
                              args.rho, args.nu))

---------------------------------------------------------------------------
(* Spec: a notebook session.  The data cells have loaded one curve and one *)
(* SABR surface and cells 12/14 have set the market point; the session     *)
(* then runs the two pricing calls any number of times, in any order.      *)

CurveTerms == {R(k, 1) : k \in 1..6}

\* LIBOR `near` up to year 3 and `far` after it; OIS factor 1/2 throughout
Curve(near, far) ==
    [t \in CurveTerms |->
        [ForwardLIBOR |-> IF RLe(t, R(3, 1)) THEN near ELSE far,
         DiscountFactorOIS |-> R(1, 2)]]

Curves == {Curve(R(1, 1), R(1, 1)), Curve(R(1, 1), R(16, 1))}

Surfaces ==
    {[alpha |-> R(1, 4), beta |-> One, rho |-> Zero, nu |-> R(1, 2)],
     [alpha |-> R(1, 2), beta |-> One, rho |-> Zero, nu |-> R(1, 2)]}

\* (T, swap_rate_period, payment_period)
MarketPoints == {<<R(1, 1), R(2, 1), One>>, <<R(4, 1), R(1, 1), One>>}

Floors == RootStrikes

InitMarket ==
    /\ \E curve \in Curves : df_discount_factors = curve
    /\ \E surface \in Surfaces : sabr_surface = surface
    /\ \E mp \in MarketPoints :
         market_point = [T |-> mp[1], swap_rate_period |-> mp[2],
                         payment_period |-> mp[3],
                         discount_factor |->
                             df_discount_factors[mp[1]].DiscountFactorOIS]

Init ==
    /\ Idle
    /\ ModuleLevelAtStart
    /\ InitMarket

\* the statements that call quad, in the order they run
QuadSites(fn) ==
    IF fn = "compute_options_payoff_1"
    THEN <<"compute_options_payoff_1:third_term",
           "compute_options_payoff_1:fourth_term">>
    ELSE <<"compute_options_payoff_2:second_term">>

\* A pricing call fn has returned r; ier[i] tells whether its i-th quad
\* call converged.  The value comes back to the caller either way.  A quad
\* call that did not converge issued an IntegrationWarning at its
\* statement; the interpreter displays a warning the first time its
\* location issues it and records the location.
Returns(fn, r, ier) ==
    /\ op' = fn
    /\ ret' = Value(r.val)
    /\ quads' = [i \in 1..Len(r.quads) |->
                   [a |-> r.quads[i].a, b |-> r.quads[i].b,
                    swaption_type |-> r.quads[i].swaption_type,
                    converged |-> ier[i]]]
    /\ shown' = {QuadSites(fn)[i] : i \in {j \in 1..Len(ier) : ~ier[j]}}
                   \ warnregistry
    /\ warnregistry' = warnregistry
                         \cup {QuadSites(fn)[i] :
                                 i \in {j \in 1..Len(ier) : ~ier[j]}}
    /\ vanilla_option' = r.vanilla_option

\* fn has returned r; each of its quad calls converged or not
ReturnsAnyOutcome(fn, r) ==
    \E ier \in [1..Len(QuadSites(fn)) -> BOOLEAN] : Returns(fn, r, ier)

Run_payoff_1 ==
    /\ ReturnsAnyOutcome("compute_options_payoff_1",
           compute_options_payoff_1(vanilla_option, g_binding, sabr_surface,
               market_point.T, market_point.swap_rate_period,
               market_point.payment_period, market_point.discount_factor,
               df_discount_factors))
    /\ args' = [fn |-> "compute_options_payoff_1"]
    /\ UNCHANGED <<g_binding, df_discount_factors, sabr_surface, market_point,
                   results>>

Run_payoff_2 ==
    \E L \in Floors :
        /\ ReturnsAnyOutcome("compute_options_payoff_2",
               compute_options_payoff_2(vanilla_option, g_binding,
                   sabr_surface, L, market_point.T,
                   market_point.swap_rate_period, market_point.payment_period,
                   market_point.discount_factor, df_discount_factors))
        /\ args' = [fn |-> "compute_options_payoff_2", L |-> L]
        /\ UNCHANGED <<g_binding, df_discount_factors, sabr_surface,
                       market_point, results>>

Next == Run_payoff_1 \/ Run_payoff_2

Spec == Init /\ [][Next]_vars

\* the forward swap rate of the session's market point
SessionForward ==
    compute_forward_swap_rate(market_point.T, market_point.swap_rate_period,
                              df_discount_factors, market_point.payment_period,
                              market_point.payment_period)

SessionClosure(swaption_type) ==
    Closure(g_binding, sabr_surface, SessionForward, market_point.T,
            market_point.swap_rate_period, market_point.payment_period,
            market_point.discount_factor, swaption_type)

\* sum of w * h_2(x) * price(x) over the grid nodes numbered in S
RECURSIVE ReplicationSum(_, _)
ReplicationSum(c, S) ==
    IF S = {} THEN Zero
    ELSE LET i == CHOOSE j \in S : \A k \in S : j <= k
         IN  RAdd(RMul(QuadRule[i].w, Integrand(c, QuadRule[i].x, <<>>).val),
                  ReplicationSum(c, S \ {i}))

NodesWithin(a, b) ==
    {i \in 1..Len(QuadRule) : RLe(a, QuadRule[i].x) /\ RLe(QuadRule[i].x, b)}

NodesFrom(a) == {i \in 1..Len(QuadRule) : RLe(a, QuadRule[i].x)}

\* C1: compute_options_payoff_2(L, ...) returns h_1(L) times the payer
\* price struck at L plus the integral of h_2(x) times the payer price
\* struck at x over [L, +infinity): one quad call, payer side, whose lower
\* bound is the floor L.
C1_FlooredPayoffFromL ==
    op = "compute_options_payoff_2" =>
        LET L == args.L
            c == SessionClosure("payer")
            m == IntOf(RDiv(One, market_point.payment_period))
            N == IntOf(market_point.swap_rate_period)
            payer == irr_settled_option_price(<<>>, market_point.discount_factor,
                         c.F, L,
                         SABR_model(c.F, L, c.expiry, c.alpha, c.beta, c.rho,
                                    c.nu),
                         c.expiry, m, N, "payer").val
        IN  /\ Len(quads) = 1
            /\ quads[1].swaption_type = "payer"
            /\ quads[1].a = L
            /\ quads[1].b = Infinity
            /\ REq(ret.val, RAdd(RMul(h_1(g_binding, L, m, N), payer),
                                 ReplicationSum(c, NodesFrom(L))))

\* a floor below the forward has been priced
C1_FloorBelowForward ==
    /\ op = "compute_options_payoff_2"
    /\ RLt(args.L, SessionForward)

\* C2: compute_options_payoff_1 returns DF * g_0(F), plus the integral of
\* h_2(x) times the receiver price over [1e-6, F], plus the integral of
\* h_2(x) times the payer price over [F, +infinity); the lower bound 1e-6
\* is positive, the ranges meet only at F, and nothing else is added.
C2_UnrestrictedPayoff ==
    op = "compute_options_payoff_1" =>
        LET F == SessionForward IN
        /\ Len(quads) = 2
        /\ quads[1].swaption_type = "receiver"
        /\ quads[1].a = Dec(1, -6)
        /\ RLt(Zero, quads[1].a)
        /\ quads[1].b = F
        /\ quads[2].swaption_type = "payer"
        /\ quads[2].a = F
        /\ quads[2].b = Infinity
        /\ REq(ret.val,
               RAdd(RAdd(RMul(market_point.discount_factor, g_0(F)),
                         ReplicationSum(SessionClosure("receiver"),
                                        NodesWithin(Dec(1, -6), F))),
                    ReplicationSum(SessionClosure("payer"), NodesFrom(F))))

\* the unrestricted payoff has been priced with strikes on both sides of F
C2_PricedBothSides ==
    /\ op = "compute_options_payoff_1"
    /\ ret.kind = "value"
    /\ NodesWithin(Dec(1, -6), SessionForward) # NodesFrom(SessionForward)
    /\ ReplicationSum(SessionClosure("receiver"),
                      NodesWithin(Dec(1, -6), SessionForward)).n # 0
    /\ ReplicationSum(SessionClosure("payer"), NodesFrom(SessionForward)).n # 0

PricingCalled ==
    op \in {"compute_options_payoff_1", "compute_options_payoff_2"}

QuadFailed == \E i \in 1..Len(quads) : ~quads[i].converged

\* C3: when a quad call of a pricing function did not converge, the
\* caller gets an indication of it: the call does not return an ordinary
\* value, or a warning is displayed.
C3_FailureSurfaced ==
    (PricingCalled /\ QuadFailed) => (ret.kind # "value" \/ shown # {})

\* a quad call failed and the pricing call returned a number, displaying
\* nothing
C3_SilentFailure ==
    PricingCalled /\ QuadFailed /\ ret.kind = "value" /\ shown = {}

\* the value the last pricing call returns when run alone, from the
\* module-level objects as the data cells left them
ValueAlone ==
    IF op = "compute_options_payoff_1"
    THEN compute_options_payoff_1(<<>>, "power", sabr_surface, market_point.T,
             market_point.swap_rate_period, market_point.payment_period,
             market_point.discount_factor, df_discount_factors).val
    ELSE compute_options_payoff_2(<<>>, "power", sabr_surface, args.L,
             market_point.T, market_point.swap_rate_period,
             market_point.payment_period, market_point.discount_factor,
             df_discount_factors).val

SameAsAlone == PricingCalled => (ret.kind = "value" /\ ret.val = ValueAlone)

ModuleObjectsUnchanged ==
    /\ df_discount_factors' = df_discount_factors
    /\ sabr_surface' = sabr_surface
    /\ market_point' = market_point
    /\ g_binding' = g_binding
    /\ vanilla_option' = vanilla_option

---------------------------------------------------------------------------
(* SpecFloor: compute_options_payoff_2 over the floors, one market.  The   *)
(* results obtained are kept, floor by floor.                              *)

FloorSurfaces ==
    {[alpha |-> alpha, beta |-> One, rho |-> rho, nu |-> R(2, 1)] :
        alpha \in Alphas, rho \in Rhos}
    \cup {[alpha |-> R(1, 2), beta |-> One, rho |-> R(-1, 2), nu |-> R(1, 2)]}

FloorMarketPoint == <<R(4, 1), R(1, 1), One>>

InitFloor ==
    /\ Idle
    /\ ModuleLevelAtStart
    /\ \E curve \in Curves : df_discount_factors = curve
    /\ \E surface \in FloorSurfaces : sabr_surface = surface
    /\ market_point = [T |-> FloorMarketPoint[1],
                       swap_rate_period |-> FloorMarketPoint[2],
                       payment_period |-> FloorMarketPoint[3],
                       discount_factor |->
                           df_discount_factors[FloorMarketPoint[1]]
                               .DiscountFactorOIS]

\* r is what compute_options_payoff_2(L, ...) returns, its quad call
\* having converged
Priced_floor(L, r) ==
    /\ Returns("compute_options_payoff_2", r, <<TRUE>>)
    /\ args' = [fn |-> "compute_options_payoff_2", L |-> L]
    /\ results' = results \cup {[L |-> L, val |-> r.val]}
    /\ UNCHANGED <<g_binding, df_discount_factors, sabr_surface, market_point>>

Price_floor ==
    \E L \in Floors :
        /\ \A done \in results : done.L # L
        /\ Priced_floor(L,
               compute_options_payoff_2(vanilla_option, g_binding,
                   sabr_surface, L, market_point.T,
                   market_point.swap_rate_period, market_point.payment_period,
                   market_point.discount_factor, df_discount_factors))

NextFloor == Price_floor

SpecFloor == InitFloor /\ [][NextFloor]_vars

\* C5: for one market point, curve and SABR surface, and two floors
\* L1 <= L2, compute_options_payoff_2(L2, ...) <= compute_options_payoff_2(L1, ...).
C5_MonotoneInFloor ==
    \A r1 \in results, r2 \in results :
        RLe(r1.L, r2.L) => RLe(r2.val, r1.val)

\* two floors above the forward have been priced, the higher one dearer
C5_HigherFloorDearer ==
    \E r1 \in results, r2 \in results :
        /\ RLe(SessionForward, r1.L)
        /\ RLt(r1.L, r2.L)
        /\ RLt(r1.val, r2.val)

====
